---- MODULE Spec2Model ----
(***************************************************************************)
(* kasir-api: the checkout path                                            *)
(*   handlers.TransactionHandler.Checkout                                  *)
(*     -> services.TransactionService.Checkout                             *)
(*     -> repositories.TransactionRepository.CreateTransaction             *)
(* together with the product Update/Delete operations that write the same  *)
(* products table.                                                         *)
(*                                                                         *)
(* The store is PostgreSQL reached through database/sql (lib/pq), at its   *)
(* default isolation level READ COMMITTED: a statement of a transaction    *)
(* sees the committed rows plus the transaction's own writes; an UPDATE or *)
(* DELETE of a row that another open transaction has written waits until   *)
(* that transaction ends and then acts on the row as committed.            *)
(***************************************************************************)
EXTENDS Integers, Sequences, FiniteSets

\* ------------------------------------------------------------------ bounds

\* Longest cart a request carries.
MaxLines == 2

\* Most lines the carts of all the requests of one behaviour hold together.
MaxTotalLines == 3

\* Number of product Update/Delete requests served in one behaviour.
MaxCrud == 1

\* ------------------------------------------------------------- input sets

Workers == {"w1", "w2"}

\* Ids 1 and 2 are rows of the products table at start; 999 never is.
ProductIds == {1, 2, 999}

Quantities == {-1, 0, 2, 3}

\* A line of a cart: any quantity of product 1, the full starting stock of
\* product 2, or the unknown id.
CheckoutItem ==
    [ProductID : {1}, Quantity : Quantities] \cup [ProductID : {2, 999}, Quantity : {2}]

Requests == UNION {[1..n -> CheckoutItem] : n \in 0..MaxLines}

NoRow == [none |-> TRUE]

\* HTTP status codes written by the handlers.
StatusCreated == 201
StatusBadRequest == 400
StatusInternalServerError == 500

\* The bodies a product Update request may carry.
ProductBodies ==
    { [name |-> "A2", price |-> 700, stock |-> 10, category_id |-> 1],
      [name |-> "B",  price |-> 300, stock |-> 0,  category_id |-> 2] }

\* ------------------------------------------------------------------ state

VARIABLES
    products,             \* committed table products: id -> row or NoRow
    transactions,         \* committed table transactions: set of rows
    transaction_details,  \* committed table transaction_details: sequence of rows
    nextID,               \* the sequence behind transactions.id
    crud,                 \* number of product Update/Delete requests served
    tx,                   \* per worker: its *sql.Tx
    inUse,                \* connections of the pool repo.db held by a transaction
    pc,                   \* per worker: position in Checkout/CreateTransaction
    items,                \* per worker: req.Items
    n,                    \* per worker: position of the range loop over items
    productID, productName, price, stock,   \* per worker: the Scan targets
    subtotal, totalAmount, details,         \* per worker: locals
    transactionID,        \* per worker: RETURNING id
    i,                    \* per worker: index of the loop over details
    affected,             \* per worker: the rows each of its UPDATEs affected
                          \* (the sql.Result that tx.Exec returns), in order
    err,                  \* per worker: the error CreateTransaction returned
    errProductID,         \* per worker: the id in "Product ID %d NOT FOUND"
    res,                  \* per worker: the *models.Transaction returned
    status,               \* per worker: the HTTP status written
    observed              \* per worker: the rows its lookups returned, in order

storeVars == <<products, transactions, transaction_details>>
localVars == <<items, n, productID, productName, price, stock, subtotal,
               totalAmount, details, transactionID, i, affected, err,
               errProductID, res, status, observed>>
vars == <<products, transactions, transaction_details, nextID, crud, tx, inUse, pc,
          items, n, productID, productName, price, stock, subtotal,
          totalAmount, details, transactionID, i, affected, err, errProductID,
          res, status, observed>>

\* The products table when the service starts.
InitProducts ==
    [p \in ProductIds |->
        CASE p = 1 -> [name |-> "A", price |-> 500, stock |-> 10, category_id |-> 1]
          [] p = 2 -> [name |-> "B", price |-> 300, stock |-> 2,  category_id |-> 1]
          [] OTHER -> NoRow]

\* written: the product rows the transaction has updated (and holds locked);
\* stock: the stock it wrote to each; header, lines: the rows it inserted.
NoTx == [state |-> "none", written |-> {}, stock |-> [p \in ProductIds |-> 0],
         header |-> {}, lines |-> <<>>]

NoRes == [nil |-> TRUE]

Init ==
    /\ products = InitProducts
    /\ transactions = {}
    /\ transaction_details = <<>>
    /\ nextID = 1
    /\ crud = 0
    /\ tx = [w \in Workers |-> NoTx]
    /\ inUse = 0
    /\ pc = [w \in Workers |-> "idle"]
    /\ items = [w \in Workers |-> <<>>]
    /\ n = [w \in Workers |-> 0]
    /\ productID = [w \in Workers |-> 0]
    /\ productName = [w \in Workers |-> ""]
    /\ price = [w \in Workers |-> 0]
    /\ stock = [w \in Workers |-> 0]
    /\ subtotal = [w \in Workers |-> 0]
    /\ totalAmount = [w \in Workers |-> 0]
    /\ details = [w \in Workers |-> <<>>]
    /\ transactionID = [w \in Workers |-> 0]
    /\ i = [w \in Workers |-> 0]
    /\ affected = [w \in Workers |-> <<>>]
    /\ err = [w \in Workers |-> "nil"]
    /\ errProductID = [w \in Workers |-> 0]
    /\ res = [w \in Workers |-> NoRes]
    /\ status = [w \in Workers |-> 0]
    /\ observed = [w \in Workers |-> <<>>]

\* ---------------------------------------------------------------- helpers

\* The row of product p as a statement of worker w's transaction sees it.
Visible(w, p) ==
    IF p \in tx[w].written /\ products[p] # NoRow
    THEN [products[p] EXCEPT !.stock = tx[w].stock[p]]
    ELSE products[p]

\* Product p's row is write-locked by an open transaction other than w's.
LockedByOther(w, p) ==
    \E v \in Workers \ {w} : tx[v].state = "open" /\ p \in tx[v].written

\* A slip in the subtotal: the price added to the quantity.
SubtotalAdded(pr, quantity) == pr + quantity

\* The lines of the carts the workers other than w were sent.
RECURSIVE LinesOfWorkers(_)
LinesOfWorkers(ws) ==
    IF ws = {} THEN 0
    ELSE LET v == CHOOSE x \in ws : TRUE
         IN Len(items[v]) + LinesOfWorkers(ws \ {v})

OtherLines(w) == LinesOfWorkers(Workers \ {w})

\* A loop that walks the cart from its last line to its first.
ItemAtReversed(its, k) == its[Len(its) + 1 - k]

\* for _, item := range items: the item of the k-th pass of the loop.
ItemAt(its, k) == its[k]

\* An UPDATE without its WHERE clause: every row of products.
UpdatedRowsAll(w, p) == {q \in ProductIds : Visible(w, q) # NoRow}

\* WHERE id = $2: the rows the UPDATE of worker w acts on, none when the
\* product is no row (any more).
UpdatedRows(w, p) == {q \in {p} : Visible(w, q) # NoRow}

\* A cart without lines turned away before the first insert.
FirstStepRejectsEmpty(body) == IF Len(body) = 0 THEN "done" ELSE "select"

\* Where CreateTransaction goes on after Begin: into the loop over the
\* items, or past it when there is none.
FirstStep(body) == IF Len(body) = 0 THEN "insert" ELSE "select"

\* subtotal := price * item.Quantity
Subtotal(pr, quantity) == pr * quantity

\* A slip in the sign of the update: stock = stock + $1.
NewStockAdded(rowStock, scannedStock, quantity) == rowStock + quantity

\* A read-modify-write: the stock scanned by the SELECT, less the quantity,
\* written back (UPDATE products SET stock = $1).
NewStockStale(rowStock, scannedStock, quantity) == scannedStock - quantity

\* UPDATE products SET stock = stock - $1: evaluated by the store on the row
\* it updates; the stock the earlier SELECT scanned takes no part.
NewStock(rowStock, scannedStock, quantity) == rowStock - quantity

\* The committed tables as they are now.
Store ==
    [products |-> products, transactions |-> transactions,
     transaction_details |-> transaction_details]

\* tx.Commit(): the committed tables once transaction t is committed.
TxCommit(t) ==
    [products |->
        [p \in ProductIds |->
            IF p \in t.written /\ products[p] # NoRow
            THEN [products[p] EXCEPT !.stock = t.stock[p]]
            ELSE products[p]],
     transactions |-> transactions \cup t.header,
     transaction_details |-> transaction_details \o t.lines]

\* A rollback that leaves the stock updates behind (the UPDATE run on
\* repo.db instead of tx).
TxRollbackKeepsStock(t) == [Store EXCEPT !.products = TxCommit(t).products]

\* A rollback that leaves the order header behind (the INSERT INTO
\* transactions run on repo.db instead of tx).
TxRollbackKeepsHeader(t) == [Store EXCEPT !.transactions = transactions \cup t.header]

\* defer tx.Rollback(): the committed tables once transaction t is rolled
\* back; every statement of CreateTransaction ran on tx, so nothing stays.
TxRollback(t) == Store

\* A return that leaves the transaction as it is (no deferred Rollback on the
\* error paths, no Commit on the last).
TxLeftOpen(t, how) == t

\* The transaction once tx.Commit() or tx.Rollback() has ended it: it holds no
\* rows, no locks and no connection any more.
TxEnded(t, how) == [NoTx EXCEPT !.state = how]

\* A deferred Rollback that takes back what the Commit before it wrote.
RollbackAfterCommitUndoes(committed, before) == before

\* The deferred tx.Rollback() of a return that follows a successful
\* tx.Commit(): the transaction is done, Rollback returns sql.ErrTxDone and
\* the tables stay as committed.
RollbackAfterCommit(committed, before) == committed

\* An id handed out twice (an id computed by the service, such as
\* SELECT MAX(id) + 1, in place of the store's sequence).
NextValSame(id) == id

\* RETURNING id: the sequence behind transactions.id moves on with every
\* INSERT, also one that is rolled back later.
NextVal(id) == id + 1

\* The name readable for a committed order line: transaction_details has no
\* name column, the reports read it through JOIN products p ON p.id = td.product_id.
DetailName(d) ==
    IF products[d.product_id] # NoRow THEN products[d.product_id].name ELSE "(no row)"

\* The status the handler writes for an error of the service.
ErrorStatus(e) == StatusBadRequest

\* ---------------------------------------------------------------- actions

\* return nil, e  +  defer tx.Rollback()  +  the handler's http.Error
ReturnErr(w, e) ==
    /\ err' = [err EXCEPT ![w] = e]
    /\ status' = [status EXCEPT ![w] = ErrorStatus(e)]
    /\ products' = TxRollback(tx[w]).products
    /\ transactions' = TxRollback(tx[w]).transactions
    /\ transaction_details' = TxRollback(tx[w]).transaction_details
    /\ tx' = [tx EXCEPT ![w] = TxEnded(tx[w], "rolledback")]
    /\ inUse' = IF tx'[w].state = "open" THEN inUse ELSE inUse - 1
    /\ pc' = [pc EXCEPT ![w] = "done"]

\* TransactionHandler.Checkout: decode the body, call the service, which calls
\* CreateTransaction, up to and including tx, err := repo.db.Begin().
Checkout(w) ==
    /\ pc[w] = "idle"
    /\ \E body \in Requests, outcome \in {"malformed", "beginfails", "open"} :
        /\ Len(body) + OtherLines(w) <= MaxTotalLines
        /\
          CASE outcome = "malformed" ->
                 /\ status' = [status EXCEPT ![w] = StatusBadRequest]
                 /\ err' = [err EXCEPT ![w] = "decode"]
                 /\ pc' = [pc EXCEPT ![w] = "done"]
                 /\ UNCHANGED <<items, tx, inUse, n>>
            [] outcome = "beginfails" ->
                 /\ items' = [items EXCEPT ![w] = body]
                 /\ err' = [err EXCEPT ![w] = "storage"]
                 /\ status' = [status EXCEPT ![w] = ErrorStatus("storage")]
                 /\ pc' = [pc EXCEPT ![w] = "done"]
                 /\ UNCHANGED <<tx, inUse, n>>
            [] outcome = "open" ->
                 /\ items' = [items EXCEPT ![w] = body]
                 /\ tx' = [tx EXCEPT ![w] = [NoTx EXCEPT !.state = "open"]]
                 /\ inUse' = inUse + 1
                 /\ n' = [n EXCEPT ![w] = 1]
                 /\ pc' = [pc EXCEPT ![w] = FirstStep(body)]
                 /\ UNCHANGED <<err, status>>
    /\ UNCHANGED <<storeVars, nextID, crud, productID, productName, price,
                   stock, subtotal, totalAmount, details, transactionID, i, res,
                   observed, affected, errProductID>>

\* SELECT id, name, price, stock FROM products WHERE id = $1, then the
\* subtotal and the running total.
Select(w) ==
    /\ pc[w] = "select"
    /\ LET item == ItemAt(items[w], n[w])
           row == Visible(w, item.ProductID)
       IN \E fail \in BOOLEAN :
            IF fail
            THEN /\ ReturnErr(w, "storage")
                 /\ UNCHANGED <<productID, productName, price, stock, subtotal,
                                totalAmount, observed, errProductID>>
            ELSE IF row = NoRow
            THEN /\ ReturnErr(w, "notfound")
                 /\ errProductID' = [errProductID EXCEPT ![w] = item.ProductID]
                 /\ UNCHANGED <<productID, productName, price, stock, subtotal,
                                totalAmount, observed>>
            ELSE /\ productID' = [productID EXCEPT ![w] = item.ProductID]
                 /\ productName' = [productName EXCEPT ![w] = row.name]
                 /\ price' = [price EXCEPT ![w] = row.price]
                 /\ stock' = [stock EXCEPT ![w] = row.stock]
                 /\ subtotal' = [subtotal EXCEPT ![w] = Subtotal(row.price, item.Quantity)]
                 /\ totalAmount' = [totalAmount EXCEPT ![w] =
                                       @ + Subtotal(row.price, item.Quantity)]
                 /\ observed' = [observed EXCEPT ![w] = Append(@, row)]
                 /\ pc' = [pc EXCEPT ![w] = "update"]
                 /\ UNCHANGED <<storeVars, tx, inUse, err, status, errProductID>>
    /\ UNCHANGED <<nextID, crud, items, n, details, transactionID, i, res, affected>>

\* UPDATE products SET stock = stock - $1 WHERE id = $2, then the append to
\* details. The result (rows affected) is discarded.
Update(w) ==
    /\ pc[w] = "update"
    /\ LET item == ItemAt(items[w], n[w])
           rows == UpdatedRows(w, item.ProductID)
       IN \E fail \in BOOLEAN :
            IF fail
            THEN /\ ReturnErr(w, "storage")
                 /\ UNCHANGED <<details, n, affected>>
            ELSE /\ \A q \in rows : ~LockedByOther(w, q)
                 /\ tx' = [tx EXCEPT
                              ![w].written = @ \cup rows,
                              ![w].stock = [q \in ProductIds |->
                                  IF q \in rows
                                  THEN NewStock(Visible(w, q).stock, stock[w],
                                                item.Quantity)
                                  ELSE @[q]]]
                 /\ affected' = [affected EXCEPT ![w] = Append(@, Cardinality(rows))]
                 /\ details' = [details EXCEPT ![w] = Append(@,
                                   [TransactionID |-> 0,
                                    ProductID |-> productID[w],
                                    ProductName |-> productName[w],
                                    Quantity |-> item.Quantity,
                                    Subtotal |-> subtotal[w]])]
                 /\ n' = [n EXCEPT ![w] = @ + 1]
                 /\ pc' = [pc EXCEPT ![w] =
                              IF n[w] = Len(items[w]) THEN "insert" ELSE "select"]
                 /\ UNCHANGED <<storeVars, inUse, err, status>>
    /\ UNCHANGED <<nextID, crud, items, productID, productName, price, stock,
                   subtotal, totalAmount, transactionID, i, res, observed,
                   errProductID>>

\* INSERT INTO transactions (total_amount) VALUES ($1) RETURNING id
InsertTransaction(w) ==
    /\ pc[w] = "insert"
    /\ \E fail \in BOOLEAN :
          IF fail
          THEN /\ ReturnErr(w, "storage")
               /\ UNCHANGED <<nextID, transactionID, i>>
          ELSE /\ transactionID' = [transactionID EXCEPT ![w] = nextID]
               /\ nextID' = NextVal(nextID)
               /\ tx' = [tx EXCEPT ![w].header =
                            {[id |-> nextID, total_amount |-> totalAmount[w]]}]
               /\ i' = [i EXCEPT ![w] = 1]
               /\ pc' = [pc EXCEPT ![w] =
                            IF Len(details[w]) = 0 THEN "commit" ELSE "detail"]
               /\ UNCHANGED <<storeVars, inUse, err, status>>
    /\ UNCHANGED <<crud, items, n, productID, productName, price, stock, subtotal,
                   totalAmount, details, res, observed, affected, errProductID>>

\* INSERT INTO transaction_details (transaction_id, product_id, quantity,
\* subtotal) VALUES ($1, $2, $3, $4), for details[i]
InsertDetail(w) ==
    /\ pc[w] = "detail"
    /\ \E fail \in BOOLEAN :
          IF fail
          THEN /\ ReturnErr(w, "storage")
               /\ UNCHANGED <<details, i>>
          ELSE /\ details' = [details EXCEPT ![w][i[w]].TransactionID = transactionID[w]]
               /\ tx' = [tx EXCEPT ![w].lines = Append(@,
                            [transaction_id |-> transactionID[w],
                             product_id |-> details[w][i[w]].ProductID,
                             quantity |-> details[w][i[w]].Quantity,
                             subtotal |-> details[w][i[w]].Subtotal])]
               /\ i' = [i EXCEPT ![w] = @ + 1]
               /\ pc' = [pc EXCEPT ![w] =
                            IF i[w] = Len(details[w]) THEN "commit" ELSE "detail"]
               /\ UNCHANGED <<storeVars, inUse, err, status>>
    /\ UNCHANGED <<nextID, crud, items, n, productID, productName, price, stock,
                   subtotal, totalAmount, transactionID, res, observed, affected,
                   errProductID>>

\* tx.Commit(), the result, the deferred tx.Rollback() of the return, and the
\* handler's 201 response.
Commit(w) ==
    /\ pc[w] = "commit"
    /\ \E fail \in BOOLEAN :
          IF fail
          THEN /\ ReturnErr(w, "storage")
               /\ UNCHANGED res
          ELSE /\ products' = RollbackAfterCommit(TxCommit(tx[w]), Store).products
               /\ transactions' = RollbackAfterCommit(TxCommit(tx[w]), Store).transactions
               /\ transaction_details' =
                     RollbackAfterCommit(TxCommit(tx[w]), Store).transaction_details
               /\ tx' = [tx EXCEPT ![w] = TxEnded(tx[w], "committed")]
               /\ inUse' = IF tx'[w].state = "open" THEN inUse ELSE inUse - 1
               /\ res' = [res EXCEPT ![w] = [ID |-> transactionID[w],
                                             TotalAmount |-> totalAmount[w],
                                             Details |-> details[w]]]
               /\ status' = [status EXCEPT ![w] = StatusCreated]
               /\ pc' = [pc EXCEPT ![w] = "done"]
               /\ UNCHANGED err
    /\ UNCHANGED <<nextID, crud, items, n, productID, productName, price, stock,
                   subtotal, totalAmount, details, transactionID, i, observed,
                   affected, errProductID>>

\* ProductRepository.Update: UPDATE products SET name, price, stock,
\* category_id WHERE id = $5, outside any transaction.
ProductUpdate ==
    /\ crud < MaxCrud
    /\ \E p \in ProductIds, body \in ProductBodies :
          /\ ~\E v \in Workers : tx[v].state = "open" /\ p \in tx[v].written
          /\ products' = [products EXCEPT ![p] = IF @ = NoRow THEN @ ELSE body]
    /\ crud' = crud + 1
    /\ UNCHANGED <<transactions, transaction_details, nextID, tx, inUse, pc, localVars>>

\* ProductRepository.Delete: DELETE FROM products WHERE id = $1
ProductDelete ==
    /\ crud < MaxCrud
    /\ \E p \in ProductIds :
          /\ ~\E v \in Workers : tx[v].state = "open" /\ p \in tx[v].written
          /\ products' = [products EXCEPT ![p] = NoRow]
    /\ crud' = crud + 1
    /\ UNCHANGED <<transactions, transaction_details, nextID, tx, inUse, pc, localVars>>

CheckoutStep(w) ==
    \/ Checkout(w)
    \/ Select(w)
    \/ Update(w)
    \/ InsertTransaction(w)
    \/ InsertDetail(w)
    \/ Commit(w)

\* Checkouts alone, every worker serving one request.
Next == \E w \in Workers : CheckoutStep(w)

Spec == Init /\ [][Next]_vars

\* A step of worker w in a behaviour whose carts hold at most MaxLines lines
\* together.
FairStep(w) == CheckoutStep(w) /\ LinesOfWorkers(Workers)' <= MaxLines

NextFair == \E w \in Workers : FairStep(w)

\* Checkouts alone, the service never standing still while a request can go
\* on: a goroutine that can run is scheduled, and every storage call returns
\* (a statement waiting for a row lock goes on when the holder ends, or is
\* aborted by the store, which is a failed call).
SpecFair == Init /\ [][NextFair]_vars /\ WF_vars(NextFair)

\* One checkout while product Update/Delete requests are served.
NextCrud ==
    \/ CheckoutStep("w1")
    \/ ProductUpdate
    \/ ProductDelete

SpecCrud == Init /\ [][NextCrud]_vars

\* ------------------------------------------------------- claim vocabulary

RECURSIVE SumSeq(_)
SumSeq(s) == IF s = <<>> THEN 0 ELSE Head(s) + SumSeq(Tail(s))

\* The quantity a cart asks of product p, over all its lines.
QtyFor(its, p) ==
    SumSeq([k \in 1..Len(its) |-> IF its[k].ProductID = p THEN its[k].Quantity ELSE 0])

\* The quantity of product p on committed order lines.
Sold(p) ==
    SumSeq([k \in 1..Len(transaction_details) |->
               IF transaction_details[k].product_id = p
               THEN transaction_details[k].quantity ELSE 0])

\* The committed lines of order id, in insertion order.
LinesOf(id) == SelectSeq(transaction_details, LAMBDA d : d.transaction_id = id)

\* The row a returned order line stands for.
RowOf(d) ==
    [transaction_id |-> d.TransactionID, product_id |-> d.ProductID,
     quantity |-> d.Quantity, subtotal |-> d.Subtotal]

\* Worker w took a step of its checkout.
Stepped(w) == <<pc[w], n[w], i[w]>> # <<pc'[w], n'[w], i'[w]>>

\* The cart has a line for a product that is no row of the products table.
HasMissing(its) == \E k \in 1..Len(its) : InitProducts[its[k].ProductID] = NoRow

HasNonPositive(its) == \E k \in 1..Len(its) : its[k].Quantity <= 0

Succeeded(w) == pc[w] = "done" /\ status[w] = StatusCreated

\* ------------------------------------------------------------------ claims

\* C1: a checkout with a line for a nonexistent product ends in an error, and
\* no step of it changes the committed store: no stock (also of the earlier
\* lines it already decremented in its transaction), no order, no order line.
C1_MissingProductAtomic ==
    [][\A w \in Workers :
         (Stepped(w) /\ HasMissing(items'[w])) =>
            /\ storeVars' = storeVars
            /\ pc'[w] = "done" => (err'[w] # "nil" /\ res'[w] = NoRes
                                   /\ status'[w] # StatusCreated)]_vars

\* C1 witness: a two-line checkout decremented its first line inside the
\* transaction, failed on the second with not-found, and the store is as at start.
C1_Witness ==
    \E w \in Workers :
        /\ pc[w] = "done" /\ err[w] = "notfound"
        /\ Len(items[w]) = 2 /\ Len(details[w]) = 1
        /\ items[w][1].Quantity > 0
        /\ products = InitProducts /\ transactions = {} /\ transaction_details = <<>>

\* C2: whichever step of a checkout fails, the committed store shows nothing
\* of it: every committed order header has exactly the lines of a returned
\* order, every committed line has its header, every stock differs from its
\* starting value by exactly the committed lines of that product, and a
\* checkout that returned an error left no order.
C2_NoPartialCheckout ==
    /\ \A t \in transactions :
          \E w \in Workers :
             /\ Succeeded(w) /\ res[w].ID = t.id
             /\ res[w].TotalAmount = t.total_amount
             /\ LinesOf(t.id) = [k \in 1..Len(res[w].Details) |-> RowOf(res[w].Details[k])]
    /\ \A k \in 1..Len(transaction_details) :
          \E t \in transactions : t.id = transaction_details[k].transaction_id
    /\ \A p \in ProductIds :
          products[p] # NoRow => products[p].stock = InitProducts[p].stock - Sold(p)
    /\ \A w \in Workers :
          (pc[w] = "done" /\ err[w] # "nil") =>
             /\ res[w] = NoRes
             /\ \A t \in transactions : t.id # transactionID[w]
             /\ tx[w].state \in {"none", "rolledback"}

\* C2 witness: a checkout failed at the insert of its second order line (its
\* header and first line were written in the transaction) and another failed
\* at commit.
C2_Witness ==
    /\ \E w \in Workers :
          /\ pc[w] = "done" /\ err[w] = "storage"
          /\ transactionID[w] # 0 /\ i[w] = 2 /\ Len(details[w]) = 2
    /\ \E w \in Workers :
          /\ pc[w] = "done" /\ err[w] = "storage"
          /\ transactionID[w] # 0 /\ i[w] = Len(details[w]) + 1

\* C3: a successful checkout returns and persists a total equal to the sum
\* of its lines' subtotals, and each subtotal is the line's quantity times the
\* price its own lookup read for that line.
C3_TotalIsSumOfSubtotals ==
    \A w \in Workers :
       Succeeded(w) =>
          /\ res[w].TotalAmount =
                SumSeq([k \in 1..Len(res[w].Details) |-> res[w].Details[k].Subtotal])
          /\ [id |-> res[w].ID, total_amount |-> res[w].TotalAmount] \in transactions
          /\ SumSeq([k \in 1..Len(LinesOf(res[w].ID)) |-> LinesOf(res[w].ID)[k].subtotal])
                = res[w].TotalAmount
          /\ Len(res[w].Details) = Len(items[w])
          /\ \A k \in 1..Len(res[w].Details) :
                res[w].Details[k].Subtotal = items[w][k].Quantity * observed[w][k].price

\* C3 witness: a successful checkout of two lines for products of different
\* price, one of which has been repriced since the checkout looked it up.
C3_Witness ==
    \E w \in Workers :
        /\ Succeeded(w) /\ Len(res[w].Details) = 2
        /\ observed[w][1].price # observed[w][2].price
        /\ res[w].Details[1].Quantity > 0 /\ res[w].Details[2].Quantity > 0
        /\ \E k \in 1..2 :
              /\ products[items[w][k].ProductID] # NoRow
              /\ products[items[w][k].ProductID].price # observed[w][k].price

\* C4: after a successful checkout, no other checkout having committed,
\* every product's stock is its starting stock less the quantities of all the
\* lines of the cart that name it; the cart [{1,3},{1,2}] against stock 10,
\* price 500 gives total 2500, stock 5 and two lines with subtotals 1500, 1000.
C4_StockLessRequested ==
    \A w \in Workers :
       (Succeeded(w) /\ \A v \in Workers \ {w} : ~Succeeded(v)) =>
          /\ \A p \in ProductIds :
                products[p] # NoRow =>
                   products[p].stock = InitProducts[p].stock - QtyFor(items[w], p)
          /\ items[w] = <<[ProductID |-> 1, Quantity |-> 3], [ProductID |-> 1, Quantity |-> 2]>> =>
                /\ res[w].TotalAmount = 2500
                /\ products[1].stock = 5
                /\ Len(LinesOf(res[w].ID)) = 2
                /\ LinesOf(res[w].ID)[1].subtotal = 1500
                /\ LinesOf(res[w].ID)[2].subtotal = 1000

\* C4 witness: the cart [{1,3},{1,2}] has been checked out.
C4_Witness ==
    \E w \in Workers :
        /\ Succeeded(w) /\ \A v \in Workers \ {w} : ~Succeeded(v)
        /\ items[w] = <<[ProductID |-> 1, Quantity |-> 3], [ProductID |-> 1, Quantity |-> 2]>>

\* C5 (as claimed): of two checkouts that each ask, in one line, for the full
\* starting stock of the same product, and meet no storage failure, exactly
\* one succeeds and the other ends with a stock-related error.
C5_ExactlyOneFullStockCheckout ==
    \A w, v \in Workers :
       (/\ w # v /\ pc[w] = "done" /\ pc[v] = "done"
        /\ err[w] \notin {"storage", "decode"} /\ err[v] \notin {"storage", "decode"}
        /\ Len(items[w]) = 1 /\ items[v] = items[w]
        /\ InitProducts[items[w][1].ProductID] # NoRow
        /\ items[w][1].Quantity = InitProducts[items[w][1].ProductID].stock)
       => \/ Succeeded(w) /\ err[v] = "insufficient stock"
          \/ Succeeded(v) /\ err[w] = "insufficient stock"

\* C6 (as claimed): the stock of every product is never negative.
C6_StockNeverNegative ==
    \A p \in ProductIds : products[p] # NoRow => products[p].stock >= 0

\* C7: when two checkouts of carts naming the same product both commit,
\* however their lookups, decrements and commits interleave, the product's
\* stock is its starting stock less the quantities both asked for.
C7_NoLostUpdate ==
    \A w, v \in Workers :
       (w # v /\ Succeeded(w) /\ Succeeded(v)) =>
          \A p \in ProductIds :
             products[p] # NoRow =>
                products[p].stock =
                   InitProducts[p].stock - QtyFor(items[w], p) - QtyFor(items[v], p)

\* C7 witness: two committed checkouts of the same product whose lookups both
\* read the starting stock, so that neither ran after the other had committed.
C7_Witness ==
    \E w, v \in Workers :
        /\ w # v /\ Succeeded(w) /\ Succeeded(v)
        /\ Len(items[w]) = 1 /\ Len(items[v]) = 1
        /\ items[w][1].ProductID = 1 /\ items[v][1].ProductID = 1
        /\ items[w][1].Quantity > 0 /\ items[v][1].Quantity > 0
        /\ observed[w][1].stock = InitProducts[1].stock
        /\ observed[v][1].stock = InitProducts[1].stock

\* C8 (as claimed): a request with a line of zero or negative quantity is
\* rejected before any storage access: once it is answered (here: its products
\* all exist and no storage call failed), the answer is a client error, its
\* transaction was never opened, no stock has risen and no order exists.
C8_NonPositiveQuantityRejected ==
    \A w \in Workers :
       (/\ pc[w] = "done" /\ err[w] \notin {"decode", "storage"}
        /\ HasNonPositive(items[w]) /\ ~HasMissing(items[w])) =>
          /\ status[w] = StatusBadRequest
          /\ tx[w].state = "none"
          /\ transactions = {}
          /\ \A p \in ProductIds :
                products[p] # NoRow => products[p].stock <= InitProducts[p].stock

\* C9 (as claimed): every committed order line reads the product name the
\* checkout returned, whatever product Update or Delete was served since.
C9_NameSnapshotKept ==
    \A w \in Workers :
       Succeeded(w) =>
          /\ Len(LinesOf(res[w].ID)) = Len(res[w].Details)
          /\ \A k \in 1..Len(res[w].Details) :
                DetailName(LinesOf(res[w].ID)[k]) = res[w].Details[k].ProductName

\* C10 (as claimed): a finished checkout is answered created on success, bad
\* request on an unknown product or a malformed body, and server error on a
\* storage failure.
C10_OutcomesClassified ==
    \A w \in Workers :
       pc[w] = "done" =>
          /\ err[w] = "nil" => status[w] = StatusCreated
          /\ err[w] \in {"notfound", "decode"} => status[w] = StatusBadRequest
          /\ err[w] = "storage" => status[w] = StatusInternalServerError

\* The transactions that hold a connection of the pool.
OpenTxs == {w \in Workers : tx[w].state = "open"}

\* C11: a checkout that opened a transaction ends it on every way out: when
\* it has returned the transaction is committed or rolled back, never open,
\* holding no row lock and no connection of the pool; the rollback deferred
\* past a successful commit leaves the committed order and stock in place;
\* and every transaction that was opened is in the end closed for good (a
\* worker serves one request, so none is opened again).
C11_TransactionAlwaysClosed ==
    /\ [](\A w \in Workers :
            /\ pc[w] = "done" =>
                 /\ tx[w].state \in {"none", "committed", "rolledback"}
                 /\ tx[w].state = "none" => err[w] \in {"decode", "storage"}
                 /\ tx[w].state = "committed" <=> err[w] = "nil"
                 /\ tx[w].written = {}
            /\ Succeeded(w) =>
                 /\ [id |-> res[w].ID, total_amount |-> res[w].TotalAmount] \in transactions
                 /\ Len(LinesOf(res[w].ID)) = Len(items[w])
                 /\ (\A v \in Workers \ {w} : ~Succeeded(v)) =>
                       \A p \in ProductIds :
                          products[p] # NoRow =>
                             products[p].stock - InitProducts[p].stock = -QtyFor(items[w], p))
    /\ [](inUse = Cardinality(OpenTxs))
    /\ <>[](OpenTxs = {})

\* C11 witness: one checkout has returned after its commit, the other after a
\* failure that followed its stock update, and no connection is in use.
C11_Witness ==
    /\ inUse = 0
    /\ \E w, v \in Workers :
          /\ Succeeded(w) /\ tx[w].state = "committed" /\ Len(items[w]) = 1
          /\ pc[v] = "done" /\ tx[v].state = "rolledback" /\ Len(details[v]) = 1
          /\ items[v][1].ProductID = items[w][1].ProductID

\* C12: there are as many committed orders as checkouts that returned
\* success, each of these returned the id of an order of its own, a checkout
\* that returned an error left none, and no step of any checkout changes or
\* removes a committed order or one of its lines.
C12_OneOrderPerSuccess ==
    /\ [](/\ Cardinality(transactions) = Cardinality({w \in Workers : Succeeded(w)})
          /\ \A w \in Workers :
                Succeeded(w) =>
                   /\ Cardinality({t \in transactions : t.id = res[w].ID}) = 1
                   /\ \A v \in Workers \ {w} : Succeeded(v) => res[v].ID # res[w].ID
          /\ \A w \in Workers :
                (pc[w] = "done" /\ ~Succeeded(w)) =>
                   /\ res[w] = NoRes
                   /\ \A t \in transactions : t.id # transactionID[w]
                   /\ LinesOf(transactionID[w]) = <<>>)
    /\ [][\A t \in transactions :
            /\ t \in transactions'
            /\ Cardinality({u \in transactions' : u.id = t.id}) = 1
            /\ LinesOf(t.id)' = LinesOf(t.id)]_vars

\* C12 witness: two checkouts have committed, the later one after the order of
\* the earlier one was there, and the orders have two ids.
C12_Witness ==
    /\ Cardinality(transactions) = 2
    /\ \E w, v \in Workers :
          /\ w # v /\ Succeeded(w) /\ Succeeded(v) /\ res[w].ID # res[v].ID
          /\ Len(items[w]) > 0 /\ Len(items[v]) > 0

\* C13 (as claimed): a checkout whose stock decrement of some line found no
\* product row (the UPDATE affected no row) returns an error and commits no
\* order; no checkout succeeds with a line that was not deducted.
C13_MissingRowAbortsCheckout ==
    \A w \in Workers :
       (pc[w] = "done" /\ \E k \in 1..Len(affected[w]) : affected[w][k] = 0) =>
          /\ ~Succeeded(w)
          /\ \A t \in transactions : t.id # transactionID[w]

\* The positions of the cart whose product is no row of products.
MissingAt(its) == {k \in 1..Len(its) : products[its[k].ProductID] = NoRow}

\* The first of a non-empty set of positions.
First(ks) == CHOOSE k \in ks : \A j \in ks : k <= j

\* C14: the lines are processed in input order: a successful checkout of n
\* lines returns n order lines and commits n detail rows, the k-th of them
\* with the product id and quantity of the k-th input line, lines of the same
\* product neither merged nor reordered; a checkout that failed on a missing
\* product stopped at the first line whose product is missing, named that
\* line's id, and had processed exactly the lines before it.
C14_LinesInInputOrder ==
    \A w \in Workers :
       /\ Succeeded(w) =>
            /\ Len(res[w].Details) = Len(items[w])
            /\ Len(LinesOf(res[w].ID)) = Len(items[w])
            /\ \A k \in 1..Len(items[w]) :
                  /\ res[w].Details[k].ProductID = items[w][k].ProductID
                  /\ res[w].Details[k].Quantity = items[w][k].Quantity
                  /\ LinesOf(res[w].ID)[k].product_id = items[w][k].ProductID
                  /\ LinesOf(res[w].ID)[k].quantity = items[w][k].Quantity
       /\ err[w] = "notfound" =>
            /\ MissingAt(items[w]) # {}
            /\ n[w] = First(MissingAt(items[w]))
            /\ errProductID[w] = items[w][First(MissingAt(items[w]))].ProductID
            /\ Len(details[w]) = n[w] - 1

\* C14 witness: a checkout of two lines of the same product with two
\* quantities has succeeded.
C14_Witness ==
    \E w \in Workers :
       /\ Succeeded(w)
       /\ Len(items[w]) = 2
       /\ items[w][1].ProductID = items[w][2].ProductID
       /\ items[w][1].Quantity # items[w][2].Quantity

\* The products the lines of a cart reference.
Referenced(its) == {its[k].ProductID : k \in 1..Len(its)}

\* C15: the products change only in the step that commits a checkout, and
\* then only in the stock of the products its lines reference: name, price
\* and category of every product and the stock of every other product stay;
\* a step in which a checkout fails changes no product.
C15_OnlyReferencedStockChanges ==
    /\ [](\A p \in ProductIds :
            /\ products[p] = NoRow <=> InitProducts[p] = NoRow
            /\ products[p] # NoRow =>
                  /\ products[p].name = InitProducts[p].name
                  /\ products[p].price = InitProducts[p].price
                  /\ products[p].category_id = InitProducts[p].category_id)
    /\ [][\A p \in ProductIds :
            products'[p] # products[p] =>
               \E w \in Workers :
                  /\ pc[w] = "commit" /\ Succeeded(w)'
                  /\ p \in Referenced(items[w])
                  /\ products'[p] = [products[p] EXCEPT !.stock = products'[p].stock]]_vars
    /\ [][\A w \in Workers :
            (pc[w] # "done" /\ pc'[w] = "done" /\ ~Succeeded(w)') =>
               products' = products]_vars

\* C15 witness: a checkout that references product 1 only has succeeded, the
\* stock of product 1 changed and product 2 is as it was.
C15_Witness ==
    \E w \in Workers :
       /\ Succeeded(w)
       /\ Referenced(items[w]) = {1}
       /\ products[1].stock # InitProducts[1].stock
       /\ products[2] = InitProducts[2]

\* C16: a checkout of a cart without lines, once decoded and begun and unless
\* the store fails, succeeds: it returns and commits one order of total 0
\* with no lines, runs no stock update, and its commit changes no product.
C16_EmptyCartAccepted ==
    /\ [](\A w \in Workers :
            (pc[w] = "done" /\ items[w] = <<>> /\ err[w] \notin {"decode", "storage"}) =>
               /\ Succeeded(w)
               /\ res[w].TotalAmount = 0
               /\ res[w].Details = <<>>
               /\ Cardinality({t \in transactions : t.id = res[w].ID}) = 1
               /\ [id |-> res[w].ID, total_amount |-> 0] \in transactions
               /\ LinesOf(res[w].ID) = <<>>
               /\ affected[w] = <<>>)
    /\ [][\A w \in Workers :
            (items[w] = <<>> /\ pc[w] # "done" /\ pc'[w] = "done") =>
               products' = products]_vars

\* C16 witness: a checkout of the empty cart has committed its order.
C16_Witness ==
    \E w \in Workers :
       /\ Succeeded(w)
       /\ items[w] = <<>>
       /\ tx[w].state = "committed"
       /\ [id |-> res[w].ID, total_amount |-> 0] \in transactions

====
